---- MODULE Spec2Model ----
(***************************************************************************)
(* A model of the breathwork session engine of temenos-electron            *)
(* (src/src/utils/breathworkEngine.ts) together with the part of the       *)
(* pattern catalogue (src/src/utils/breathworkPatterns.ts) it is driven    *)
(* with.  The engine is a single object; its control methods and the       *)
(* callback of every interval timer it created run to completion on the    *)
(* one event-loop thread, so each of them is one atomic action.            *)
(***************************************************************************)
EXTENDS Integers, Sequences, FiniteSets, TLC

\* ------------------------------------------------------------------ bounds
\* round counts passed to createSession range over 1..MaxBreaths
MaxBreaths == 2
\* interval timers that may be live at the same time (setInterval handles)
MaxTimers == 2
\* start() is not explored any more once currentRound exceeds this
MaxRound == 3
\* sound callbacks the host may install (0 stands for null)
MaxCallbacks == 1
\* distinct listener functions the host registers
MaxListeners == 2
\* entries of BreathworkEngine.listeners
MaxRegistrations == 2
\* a firing of the interval runs up to MaxJitter milliseconds after its time
MaxJitter == 1
\* the breaths slider of the settings modal is moved over SliderMin..MaxSlider
MaxSlider == 3
\* the play button is not explored any more once start() would find a session
\* with currentRound > breaths + MaxRestarts
MaxRestarts == 1
\* under BreathworkTimer the ticks of a session are explored up to its
\* MaxElapsed-th second
MaxElapsed == 8

\* --------------------------------------------------------- pattern catalogue
Phase(t, d) == [type |-> t, duration |-> d]

\* BREATH_PATTERNS['box-breathing'].phases
BoxBreathing ==
  << Phase("inhale", 4), Phase("hold", 4), Phase("exhale", 4), Phase("hold", 4) >>

\* BREATH_PATTERNS['kapalabhati'].phases
Kapalabhati == << Phase("inhale", 1), Phase("exhale", 1) >>

\* a one-phase pattern of the BreathPattern shape: [inhale 3]
SingleInhale == << Phase("inhale", 3) >>

\* a pattern of the BreathPattern shape that has a pause phase: [exhale 2, pause 3]
ExhalePause == << Phase("exhale", 2), Phase("pause", 3) >>

PatternIds == {"box-breathing", "kapalabhati", "single-inhale", "exhale-pause"}

\* pattern.phases of the pattern with the given id
Phases(id) ==
  CASE id = "box-breathing" -> BoxBreathing
    [] id = "kapalabhati"   -> Kapalabhati
    [] id = "single-inhale" -> SingleInhale
    [] id = "exhale-pause"  -> ExhalePause

RECURSIVE SumDurations(_)
\* pattern.phases.reduce((total, phase) => total + phase.duration, 0)
SumDurations(ph) ==
  IF ph = << >> THEN 0 ELSE Head(ph).duration + SumDurations(Tail(ph))

Min(a, b) == IF a < b THEN a ELSE b
Max(a, b) == IF a > b THEN a ELSE b

\* ------------------------------------------------------------------- state
VARIABLES
  session,            \* BreathworkEngine.session (NoSession stands for null)
  timer,              \* BreathworkEngine.timer: a handle, 0 stands for null
  liveTimers,         \* the interval timers created and not yet cleared
  currentCount,       \* BreathworkEngine.currentCount
  countingDirection,  \* BreathworkEngine.countingDirection
  soundCallback,      \* BreathworkEngine.soundCallback, 0 stands for null
  listeners,          \* BreathworkEngine.listeners
  emitted,            \* the events the last operation handed to emitEvent
  sounds,             \* the sound callback invocations of the last operation
  delivered,          \* the listener calls of the last operation, in call order
  op,                 \* the last operation that ran
  before,             \* the session as the last operation found it
  run,                \* history of the current createSession/start/tick run
  clock,              \* the times of the interval of startPreciseTimer (ms)
  ui,                 \* the React state of BreathworkTimer and its hooks
  stored,             \* localStorage['breathwork-settings']
  host                \* history of the handlers of BreathworkTimer

vars == << session, timer, liveTimers, currentCount, countingDirection,
           soundCallback, listeners, emitted, sounds, delivered, op, before, run,
           clock, ui, stored, host >>

\* what the engine's operations leave alone when it is driven directly
hostVars == << clock, ui, stored, host >>

NoSession == [null |-> TRUE]
NoPhase == Phase("none", 0)

\* the engine object as one value; emitted and sounds start empty in each operation
Eng ==
  [ session |-> session, timer |-> timer, liveTimers |-> liveTimers,
    currentCount |-> currentCount, countingDirection |-> countingDirection,
    soundCallback |-> soundCallback, listeners |-> listeners,
    emitted |-> << >>, sounds |-> << >>, delivered |-> << >> ]

\* the engine object after an operation
Commit(e) ==
  /\ session' = e.session
  /\ timer' = e.timer
  /\ liveTimers' = e.liveTimers
  /\ currentCount' = e.currentCount
  /\ countingDirection' = e.countingDirection
  /\ soundCallback' = e.soundCallback
  /\ listeners' = e.listeners
  /\ emitted' = e.emitted
  /\ sounds' = e.sounds
  /\ delivered' = e.delivered

Event(t, d) == [type |-> t, data |-> d]

\* emitEvent calling the listeners from the last registered to the first
EmitEventReversed(e, ev) ==
  [e EXCEPT !.emitted = Append(@, ev),
            !.delivered = @ \o [i \in 1..Len(e.listeners) |->
                                  [ listener |-> e.listeners[Len(e.listeners) + 1 - i],
                                    event |-> ev ]]]

\* emitEvent: this.listeners.forEach(listener => listener(event))
EmitEvent(e, ev) ==
  [e EXCEPT !.emitted = Append(@, ev),
            !.delivered = @ \o [i \in 1..Len(e.listeners) |->
                                  [listener |-> e.listeners[i], event |-> ev]]]

\* addEventListener(listener)
AddEventListenerOn(e, l) == [e EXCEPT !.listeners = Append(@, l)]

\* removeEventListener(listener)
RemoveEventListenerOn(e, l) ==
  [e EXCEPT !.listeners = SelectSeq(@, LAMBDA x : x # l)]

\* clearInterval(this.timer); this.timer = null, when this.timer is set
ClearTimer(e) ==
  IF e.timer # 0
  THEN [e EXCEPT !.liveTimers = @ \ {e.timer}, !.timer = 0]
  ELSE e

\* calculateTotalTime(pattern, breaths)
CalculateTotalTime(pattern, breaths) == SumDurations(Phases(pattern)) * breaths

\* pattern.phases[0]?.duration || 0
FirstDuration(pattern) ==
  IF Len(Phases(pattern)) >= 1 THEN Phases(pattern)[1].duration ELSE 0

\* getCurrentPhase(): pattern.phases[currentPhaseIndex] || null
GetCurrentPhase(e) ==
  IF e.session = NoSession THEN NoPhase
  ELSE IF e.session.currentPhaseIndex + 1 \in 1..Len(Phases(e.session.pattern))
       THEN Phases(e.session.pattern)[e.session.currentPhaseIndex + 1]
       ELSE NoPhase

\* the count computed from the elapsed time without the + 1
CountForZeroBased(phase, timeRemaining) ==
  IF phase.type = "pause"
  THEN Max(timeRemaining, 1)
  ELSE Min(phase.duration - timeRemaining, phase.duration)

\* the count with the pause case counting up like the other phases
CountForPauseUp(phase, timeRemaining) ==
  Min((phase.duration - timeRemaining) + 1, phase.duration)

\* the count updateCountingState computes for a phase with timeRemaining left
CountFor(phase, timeRemaining) ==
  IF phase.type = "pause"
  THEN Max(timeRemaining, 1)
  ELSE Min((phase.duration - timeRemaining) + 1, phase.duration)

\* updateCountingState()
UpdateCountingState(e) ==
  IF e.session = NoSession \/ ~e.session.isActive THEN e
  ELSE LET currentPhase == GetCurrentPhase(e) IN
    IF currentPhase = NoPhase THEN e
    ELSE
      LET previousCount == e.currentCount
          newCount == CountFor(currentPhase, e.session.timeRemaining)
          e1 == [e EXCEPT !.currentCount = newCount,
                          !.countingDirection =
                             IF currentPhase.type = "pause" THEN "down" ELSE "up"]
      IN IF (newCount # previousCount \/ e.session.elapsedTime = 0)
            /\ e.soundCallback # 0
         THEN [e1 EXCEPT !.sounds =
                 Append(@, [cb |-> e.soundCallback, phase |-> currentPhase,
                            count |-> newCount,
                            isActive |-> e.session.isActive,
                            isPaused |-> e.session.isPaused])]
         ELSE e1

\* stop() that leaves the sound callback installed
StopKeepsSound(e) ==
  LET e1 == ClearTimer(e)
      e2 == IF e1.session # NoSession
            THEN [e1 EXCEPT !.session.isActive = FALSE, !.session.isPaused = FALSE]
            ELSE e1
  IN EmitEvent(e2, Event("stop", << >>))

\* stop()
StopEngine(e) ==
  LET e1 == ClearTimer(e)
      e2 == IF e1.session # NoSession
            THEN [e1 EXCEPT !.session.isActive = FALSE, !.session.isPaused = FALSE]
            ELSE e1
      e3 == [e2 EXCEPT !.soundCallback = 0]
  IN EmitEvent(e3, Event("stop", << >>))

\* completeSession() emitting sessionComplete before it stops
CompleteSessionStopLast(e) ==
  LET e1 == EmitEvent(e, Event("sessionComplete", << >>))
      e2 == StopEngine(e1)
  IN [e2 EXCEPT !.soundCallback = 0, !.currentCount = 1,
                !.countingDirection = "up"]

\* completeSession()
CompleteSession(e) ==
  LET e1 == StopEngine(e)
      e2 == [e1 EXCEPT !.soundCallback = 0, !.currentCount = 1,
                       !.countingDirection = "up"]
  IN EmitEvent(e2, Event("sessionComplete", << >>))

\* the completion test with >= in place of >
SessionIsCompleteOffByOne(s) == s.currentRound >= s.breaths

\* the test of completeRound that decides whether the session is complete
SessionIsComplete(s) == s.currentRound > s.breaths

\* completeRound() tagging its phaseChange with the round just completed
CompleteRoundStaleRound(e) ==
  IF e.session = NoSession THEN e
  ELSE
    LET e1 == [e EXCEPT !.session.currentRound = @ + 1,
                        !.session.currentPhaseIndex = 0]
        e2 == EmitEvent(e1, Event("roundComplete",
                  << e1.session.currentRound - 1, e1.session.breaths >>))
    IN IF SessionIsComplete(e2.session)
       THEN CompleteSession(e2)
       ELSE
         LET firstPhase == Phases(e2.session.pattern)[1]
             e3 == [e2 EXCEPT !.session.timeRemaining = firstPhase.duration]
             e4 == UpdateCountingState(e3)
         IN EmitEvent(e4, Event("phaseChange", << 0, e4.session.currentRound - 1 >>))

\* completeRound()
CompleteRound(e) ==
  IF e.session = NoSession THEN e
  ELSE
    LET e1 == [e EXCEPT !.session.currentRound = @ + 1,
                        !.session.currentPhaseIndex = 0]
        e2 == EmitEvent(e1, Event("roundComplete",
                  << e1.session.currentRound - 1, e1.session.breaths >>))
    IN IF SessionIsComplete(e2.session)
       THEN CompleteSession(e2)
       ELSE
         LET firstPhase == Phases(e2.session.pattern)[1]
             e3 == [e2 EXCEPT !.session.timeRemaining = firstPhase.duration]
             e4 == UpdateCountingState(e3)
         IN EmitEvent(e4, Event("phaseChange", << 0, e4.session.currentRound >>))

\* advancePhase()
AdvancePhase(e) ==
  IF e.session = NoSession THEN e
  ELSE
    LET e1 == [e EXCEPT !.session.currentPhaseIndex = @ + 1] IN
    IF e1.session.currentPhaseIndex >= Len(Phases(e1.session.pattern))
    THEN CompleteRound(e1)
    ELSE
      LET nextPhase == Phases(e1.session.pattern)[e1.session.currentPhaseIndex + 1]
          e2 == [e1 EXCEPT !.session.timeRemaining = nextPhase.duration]
          e3 == UpdateCountingState(e2)
      IN EmitEvent(e3, Event("phaseChange",
              << e3.session.currentPhaseIndex, e3.session.currentRound >>))

\* a handle setInterval has not handed out to a live timer
FreshTimer(e) == CHOOSE t \in 1..MaxTimers : t \notin e.liveTimers

\* startPreciseTimer(): this.timer = setInterval(..., 1000)
StartPreciseTimer(e) ==
  IF e.session = NoSession THEN e
  ELSE [e EXCEPT !.timer = FreshTimer(e),
                 !.liveTimers = @ \cup {FreshTimer(e)}]

\* the guard of the interval callback without its isActive test
TimerGuardNoActive(e) == e.session = NoSession \/ e.session.isPaused

\* the guard of the interval callback without its isPaused test
TimerGuardNoPaused(e) == e.session = NoSession \/ ~e.session.isActive

\* the guard at the head of the interval callback
TimerGuard(e) ==
  e.session = NoSession \/ e.session.isPaused \/ ~e.session.isActive

\* the phase-over test with < in place of <=
PhaseIsOverStrict(s) == s.timeRemaining < 0

\* the test of the interval callback that decides whether the phase is over
PhaseIsOver(s) == s.timeRemaining <= 0

\* the interval callback of startPreciseTimer
TimerCallback(e) ==
  IF TimerGuard(e) THEN ClearTimer(e)
  ELSE
    LET e1 == [e EXCEPT !.session.timeRemaining = @ - 1,
                        !.session.elapsedTime = @ + 1]
        e2 == UpdateCountingState(e1)
    IN IF PhaseIsOver(e2.session) THEN AdvancePhase(e2) ELSE e2

\* createSession that does not reset the counting state
CreateSessionKeepsCount(e, pattern, breaths) ==
  [e EXCEPT !.session = [ pattern |-> pattern,
                          breaths |-> breaths,
                          currentRound |-> 1,
                          currentPhaseIndex |-> 0,
                          timeRemaining |-> FirstDuration(pattern),
                          isActive |-> FALSE,
                          isPaused |-> FALSE,
                          totalTime |-> CalculateTotalTime(pattern, breaths),
                          elapsedTime |-> 0 ]]

\* createSession(pattern, breaths)
CreateSessionOn(e, pattern, breaths) ==
  LET e1 == [e EXCEPT
               !.session = [ pattern |-> pattern,
                             breaths |-> breaths,
                             currentRound |-> 1,
                             currentPhaseIndex |-> 0,
                             timeRemaining |-> FirstDuration(pattern),
                             isActive |-> FALSE,
                             isPaused |-> FALSE,
                             totalTime |-> CalculateTotalTime(pattern, breaths),
                             elapsedTime |-> 0 ],
               !.currentCount = 1,
               !.countingDirection = "up"]
  IN UpdateCountingState(e1)

\* start() that sets elapsedTime back to 0
StartResetsElapsed(e) ==
  IF e.session = NoSession THEN e
  ELSE
    LET e1 == [e EXCEPT !.session.isActive = TRUE, !.session.isPaused = FALSE,
                        !.session.elapsedTime = 0]
        e2 == UpdateCountingState(e1)
        e3 == StartPreciseTimer(e2)
    IN EmitEvent(e3, Event("resume", << >>))

\* start()
StartOn(e) ==
  IF e.session = NoSession THEN e
  ELSE
    LET e1 == [e EXCEPT !.session.isActive = TRUE, !.session.isPaused = FALSE]
        e2 == UpdateCountingState(e1)
        e3 == StartPreciseTimer(e2)
    IN EmitEvent(e3, Event("resume", << >>))

\* the guard of pause() without its isActive test
PauseGuardNoActive(e) == e.session = NoSession

\* the guard of pause()
PauseGuard(e) == e.session = NoSession \/ ~e.session.isActive

\* pause()
PauseOn(e) ==
  IF PauseGuard(e) THEN e
  ELSE
    LET e1 == [e EXCEPT !.session.isPaused = TRUE]
        e2 == ClearTimer(e1)
    IN EmitEvent(e2, Event("pause", << >>))

\* resume() restarting the current phase
ResumeRestartsPhase(e) ==
  IF e.session = NoSession \/ ~e.session.isPaused THEN e
  ELSE
    LET e1 == [e EXCEPT !.session.isPaused = FALSE,
                        !.session.timeRemaining = GetCurrentPhase(e).duration]
        e2 == StartPreciseTimer(e1)
    IN EmitEvent(e2, Event("resume", << >>))

\* resume()
ResumeOn(e) ==
  IF e.session = NoSession \/ ~e.session.isPaused THEN e
  ELSE
    LET e1 == [e EXCEPT !.session.isPaused = FALSE]
        e2 == StartPreciseTimer(e1)
    IN EmitEvent(e2, Event("resume", << >>))

\* reset() that leaves elapsedTime alone
ResetKeepsElapsed(e) ==
  LET e1 == StopEngine(e)
      e2 == IF e1.session # NoSession
            THEN [e1 EXCEPT !.session.currentRound = 1,
                            !.session.currentPhaseIndex = 0,
                            !.session.timeRemaining = FirstDuration(e1.session.pattern),
                            !.currentCount = 1,
                            !.countingDirection = "up"]
            ELSE e1
  IN [e2 EXCEPT !.soundCallback = 0]

\* reset()
ResetOn(e) ==
  LET e1 == StopEngine(e)
      e2 == IF e1.session # NoSession
            THEN [e1 EXCEPT !.session.currentRound = 1,
                            !.session.currentPhaseIndex = 0,
                            !.session.timeRemaining = FirstDuration(e1.session.pattern),
                            !.session.elapsedTime = 0,
                            !.currentCount = 1,
                            !.countingDirection = "up"]
            ELSE e1
  IN [e2 EXCEPT !.soundCallback = 0]

\* getProgress() multiplied by session.totalTime (the percentage is this
\* number divided by totalTime): min(elapsedTime / totalTime * 100, 100)
GetProgressTimesTotal(e) ==
  IF e.session = NoSession THEN 0
  ELSE Min(e.session.elapsedTime * 100, 100 * e.session.totalTime)

\* getTotalTimeRemaining()
GetTotalTimeRemaining(e) ==
  IF e.session = NoSession THEN 0
  ELSE e.session.totalTime - e.session.elapsedTime

\* ------------------------------------------------------ history of a run
\* run.stage: "none"    none of the stages below
\*            "reset"   reset() ran on a session; no start() or createSession since
\*            "stopped" stop() ran on an active session; no start(), reset()
\*                      or createSession since
\*            "created" createSession was the last control call
\*            "started" createSession, start and since then only timer firings
\* run.ticks counts the timer firings since that start (it stops counting one
\* past totalTime), run.rounds lists the completedRound of the roundComplete
\* events and run.completes counts the sessionComplete events of the run
NoRun == [stage |-> "none", ticks |-> 0, rounds |-> << >>, completes |-> 0]

RECURSIVE CompletedRounds(_)
CompletedRounds(evs) ==
  IF evs = << >> THEN << >>
  ELSE IF Head(evs).type = "roundComplete"
       THEN << Head(evs).data[1] >> \o CompletedRounds(Tail(evs))
       ELSE CompletedRounds(Tail(evs))

RECURSIVE CountType(_, _)
CountType(evs, t) ==
  IF evs = << >> THEN 0
  ELSE (IF Head(evs).type = t THEN 1 ELSE 0) + CountType(Tail(evs), t)

\* the history after pause(), resume() or stop()
RunAfterControl == IF run.stage \in {"reset", "stopped"} THEN run ELSE NoRun

\* the history after stop()
RunAfterStop ==
  IF run.stage # "reset" /\ session # NoSession /\ session.isActive
  THEN [NoRun EXCEPT !.stage = "stopped"]
  ELSE RunAfterControl

RunAfterTick(e) ==
  IF run.stage = "started"
  THEN [run EXCEPT !.ticks = Min(@ + 1, session.totalTime + 1),
                   !.rounds = @ \o CompletedRounds(e.emitted),
                   !.completes = @ + CountType(e.emitted, "sessionComplete")]
  ELSE run

\* ------------------------------------------------------------ timer clock
\* setInterval(..., 1000): the period of the interval, in milliseconds
TickMs == 1000

\* clock.now           performance.now() at the last call or firing, measured
\*                     from the last call of startPreciseTimer
\* clock.expectedTime  BreathworkEngine.expectedTime, on the same scale
\* clock.drift         the drift the last firing computed
\* clock.due           the time the platform has set for the next firing
\* clock.fired         the firings since startPreciseTimer that passed the guard
\* clock.firedAt       the time of the last of them
NoClock ==
  [now |-> 0, expectedTime |-> 0, drift |-> 0, due |-> 0, fired |-> 0, firedAt |-> 0]

\* startPreciseTimer(): startTime = performance.now(); expectedTime = startTime;
\* setInterval(..., 1000)
ClockStarted ==
  [now |-> 0, expectedTime |-> 0, drift |-> 0, due |-> TickMs, fired |-> 0,
   firedAt |-> 0]

\* the interval callback running at time t with the platform setting the
\* next firing for time nextDue: drift = now - expectedTime;
\* expectedTime += 1000.  The period handed to setInterval stays 1000.
ClockFired(c, t, nextDue, guarded) ==
  IF guarded
  THEN [c EXCEPT !.now = t, !.due = nextDue]
  ELSE [c EXCEPT !.now = t,
                 !.drift = t - c.expectedTime,
                 !.expectedTime = c.expectedTime + 1000,
                 !.due = nextDue,
                 !.fired = @ + 1,
                 !.firedAt = t]

\* ------------------------------------------- settings kept in localStorage
\* the patterns of the catalogue the component is driven with
CatalogueIds == {"box-breathing", "kapalabhati"}

\* BREATH_PATTERNS[..].defaultBreaths
DefaultBreaths(id) == IF id = "box-breathing" THEN 10 ELSE 30

\* localStorage.getItem(BREATHWORK_SETTINGS_KEY) === null
NoStored == << >>

\* getDefaultBreathworkSettings()
GetDefaultBreathworkSettings ==
  [selectedPatternId |-> "box-breathing", breaths |-> 10]

\* saveBreathworkSettings(settings): the JSON text of the two fields, kept as
\* the pair of values it spells out
SaveBreathworkSettings(settings) ==
  << settings.selectedPatternId, settings.breaths >>

\* loadBreathworkSettings() reading the stored text st
LoadBreathworkSettings(st) ==
  IF st # NoStored /\ st[1] # "" /\ st[2] \in Int
  THEN [selectedPatternId |-> st[1], breaths |-> Max(3, Min(20, st[2]))]
  ELSE GetDefaultBreathworkSettings

\* getPatternById(id), with the fallback of the initialisation effect
PatternOrDefault(id) == IF id \in CatalogueIds THEN id ELSE "box-breathing"

\* ------------------------------------ BreathworkTimer and useBreathwork
\* The React state the handlers read: the hook's copies of the engine's
\* isActive, isPaused, currentRound and breaths, and the component's own
\* state.  (The hook's other copies are only displayed.)  A handler reads
\* the state of the render it was created in and its setState calls show in
\* the next render.
InitialUI ==
  [ isActive |-> FALSE, isPaused |-> FALSE, currentRound |-> 1,
    totalBreaths |-> 0, selectedPattern |-> "none", breaths |-> 10,
    showSettings |-> FALSE, wasPausedBeforeSettings |-> FALSE,
    isFullScreen |-> FALSE, isAudioInitialized |-> FALSE, tempBreaths |-> 10 ]

\* host.handler   the handler that ran last
\* host.opened    the engine's session as handleSettingsOpen found it, until
\*                the modal is closed or a setting is changed
\* host.replaced  handlePatternSelect or handleBreathsChange has replaced the
\*                session and handleStart has not run since
NoHost == [handler |-> "none", opened |-> NoSession, replaced |-> FALSE]

\* useBreathwork.handleEngineEvent
HandleEngineEvent(u, ev) ==
  CASE ev.type = "roundComplete" ->
         [u EXCEPT !.currentRound = ev.data[1] + 1]
    [] ev.type = "sessionComplete" ->
         [u EXCEPT !.isActive = FALSE, !.isPaused = FALSE, !.currentRound = 1]
    [] ev.type = "pause" -> [u EXCEPT !.isPaused = TRUE]
    [] ev.type = "resume" -> [u EXCEPT !.isPaused = FALSE]
    [] ev.type = "stop" -> [u EXCEPT !.isActive = FALSE, !.isPaused = FALSE]
    [] OTHER -> u

\* the listener called with the events of an operation, in order
RECURSIVE HandleEngineEvents(_, _)
HandleEngineEvents(u, evs) ==
  IF evs = << >> THEN u
  ELSE HandleEngineEvents(HandleEngineEvent(u, Head(evs)), Tail(evs))

\* useBreathwork.updateUIState
UpdateUIState(u, e) ==
  IF e.session = NoSession THEN u
  ELSE [u EXCEPT !.isActive = e.session.isActive,
                 !.isPaused = e.session.isPaused,
                 !.currentRound = e.session.currentRound,
                 !.totalBreaths = e.session.breaths]

\* the effect of BreathworkTimer that installs the sound callback: it runs
\* again when isAudioInitialized or isActive has changed in a render
SoundEffect(old, new, e) ==
  IF new.isActive # old.isActive \/ new.isAudioInitialized # old.isAudioInitialized
  THEN [e EXCEPT !.soundCallback = IF new.isAudioInitialized THEN 1 ELSE 0]
  ELSE e

\* the engine of a freshly loaded page with the listeners of useBreathwork
\* (1) and useBreathworkSound (2) registered
MountedEngine ==
  [ session |-> NoSession, timer |-> 0, liveTimers |-> {},
    currentCount |-> 1, countingDirection |-> "up", soundCallback |-> 0,
    listeners |-> << 1, 2 >>, emitted |-> << >>, sounds |-> << >>,
    delivered |-> << >> ]

\* the initialisation effect of BreathworkTimer: the settings it loads
InitialSettings(st) ==
  [ selectedPatternId |-> PatternOrDefault(LoadBreathworkSettings(st).selectedPatternId),
    breaths |-> LoadBreathworkSettings(st).breaths ]

\* the engine after the initialisation effect
InitialEngine(st) ==
  CreateSessionOn(MountedEngine, InitialSettings(st).selectedPatternId,
                  InitialSettings(st).breaths)

\* the React state after the initialisation effect
InitialisedUI(st) ==
  UpdateUIState([InitialUI EXCEPT
                   !.selectedPattern = InitialSettings(st).selectedPatternId,
                   !.breaths = InitialSettings(st).breaths,
                   !.tempBreaths = InitialSettings(st).breaths],
                InitialEngine(st))

\* handleStart(), in a render with state u, on the engine e that has a session
HandleStart(e, u) ==
  LET e1 == IF u.currentRound > u.totalBreaths THEN ResetOn(e) ELSE e
      e2 == IF u.isAudioInitialized THEN [e1 EXCEPT !.soundCallback = 1] ELSE e1
  IN IF u.isPaused THEN ResumeOn(e2) ELSE StartOn(e2)

\* the session start() or resume() is called on by handleStart()
FoundByStart(e, u) ==
  IF u.currentRound > u.totalBreaths THEN ResetOn(e).session ELSE e.session

\* handleStop(), and the branch of handleToggle() that leaves full screen
HandleStop(e) == ResetOn(StopEngine(e))

\* handleSettingsClose() calling start() where the code calls resume()
HandleSettingsCloseStarts(e, u) ==
  IF u.isActive /\ u.isPaused /\ ~u.wasPausedBeforeSettings
  THEN StartOn(e)
  ELSE e

\* handleSettingsClose() in a render with state u
HandleSettingsClose(e, u) ==
  IF u.isActive /\ u.isPaused /\ ~u.wasPausedBeforeSettings
  THEN ResumeOn(e)
  ELSE e

\* ----------------------------------------------------------------- actions
Init ==
  /\ session = NoSession
  /\ timer = 0
  /\ liveTimers = {}
  /\ currentCount = 1
  /\ countingDirection = "up"
  /\ soundCallback = 0
  /\ listeners = << >>
  /\ emitted = << >>
  /\ sounds = << >>
  /\ delivered = << >>
  /\ op = "new"
  /\ before = NoSession
  /\ run = NoRun
  /\ clock = NoClock
  /\ ui = InitialUI
  /\ stored = NoStored
  /\ host = NoHost

CreateSession(pattern, breaths) ==
  /\ Commit(CreateSessionOn(Eng, pattern, breaths))
  /\ op' = "createSession"
  /\ before' = session
  /\ run' = [NoRun EXCEPT !.stage = "created"]
  /\ UNCHANGED hostVars

SetSoundCallback(cb) ==
  /\ Commit([Eng EXCEPT !.soundCallback = cb])
  /\ op' = "setSoundCallback"
  /\ before' = session
  /\ run' = run
  /\ UNCHANGED hostVars

Start ==
  /\ Cardinality(liveTimers) < MaxTimers
  /\ session # NoSession => session.currentRound <= MaxRound
  /\ Commit(StartOn(Eng))
  /\ op' = "start"
  /\ before' = session
  /\ run' = IF run.stage = "created" THEN [run EXCEPT !.stage = "started"] ELSE NoRun
  /\ UNCHANGED hostVars

Pause ==
  /\ Commit(PauseOn(Eng))
  /\ op' = "pause"
  /\ before' = session
  /\ run' = RunAfterControl
  /\ UNCHANGED hostVars

Resume ==
  /\ Cardinality(liveTimers) < MaxTimers
  /\ Commit(ResumeOn(Eng))
  /\ op' = "resume"
  /\ before' = session
  /\ run' = RunAfterControl
  /\ UNCHANGED hostVars

Stop ==
  /\ Commit(StopEngine(Eng))
  /\ op' = "stop"
  /\ before' = session
  /\ run' = RunAfterStop
  /\ UNCHANGED hostVars

Reset ==
  /\ Commit(ResetOn(Eng))
  /\ op' = "reset"
  /\ before' = session
  /\ run' = IF session # NoSession THEN [NoRun EXCEPT !.stage = "reset"] ELSE NoRun
  /\ UNCHANGED hostVars

\* the interval timer t fires
TimerFire(t) ==
  /\ t \in liveTimers
  /\ Commit(TimerCallback(Eng))
  /\ op' = "tick"
  /\ before' = session
  /\ run' = RunAfterTick(TimerCallback(Eng))
  /\ UNCHANGED hostVars

Next ==
  \/ \E pattern \in PatternIds, breaths \in 1..MaxBreaths : CreateSession(pattern, breaths)
  \/ \E cb \in 0..MaxCallbacks : SetSoundCallback(cb)
  \/ Start
  \/ Pause
  \/ Resume
  \/ Stop
  \/ Reset
  \/ \E t \in 1..MaxTimers : TimerFire(t)

Spec == Init /\ [][Next]_vars

\* ------------------------------------------- the engine with its listeners
AddEventListener(l) ==
  /\ Len(listeners) < MaxRegistrations
  /\ Commit(AddEventListenerOn(Eng, l))
  /\ op' = "addEventListener"
  /\ before' = session
  /\ run' = run
  /\ UNCHANGED hostVars

RemoveEventListener(l) ==
  /\ Commit(RemoveEventListenerOn(Eng, l))
  /\ op' = "removeEventListener"
  /\ before' = session
  /\ run' = run
  /\ UNCHANGED hostVars

\* one short session (Kapalabhati, one round) observed by the listeners
NextListeners ==
  \/ \E l \in 1..MaxListeners : AddEventListener(l)
  \/ \E l \in 1..MaxListeners : RemoveEventListener(l)
  \/ CreateSession("kapalabhati", 1)
  \/ Start
  \/ Pause
  \/ Resume
  \/ Stop
  \/ Reset
  \/ \E t \in 1..MaxTimers : TimerFire(t)

SpecListeners == Init /\ [][NextListeners]_vars

\* ----------------------------------------- the engine with its timer clock
\* Box Breathing sessions with one interval at a time: start() and resume()
\* are called with no interval live, so clock describes the interval of
\* this.timer.
ClockCreateSession(pattern, breaths) ==
  /\ Commit(CreateSessionOn(Eng, pattern, breaths))
  /\ op' = "createSession"
  /\ before' = session
  /\ run' = [NoRun EXCEPT !.stage = "created"]
  /\ UNCHANGED << clock, ui, stored, host >>

ClockStart ==
  /\ liveTimers = {}
  /\ session # NoSession
  /\ session.currentRound <= session.breaths
  /\ Commit(StartOn(Eng))
  /\ op' = "start"
  /\ before' = session
  /\ run' = IF run.stage = "created" THEN [run EXCEPT !.stage = "started"] ELSE NoRun
  /\ clock' = ClockStarted
  /\ UNCHANGED << ui, stored, host >>

ClockPause ==
  /\ Commit(PauseOn(Eng))
  /\ op' = "pause"
  /\ before' = session
  /\ run' = RunAfterControl
  /\ UNCHANGED << clock, ui, stored, host >>

ClockResume ==
  /\ liveTimers = {}
  /\ session # NoSession
  /\ session.isPaused
  /\ Commit(ResumeOn(Eng))
  /\ op' = "resume"
  /\ before' = session
  /\ run' = RunAfterControl
  /\ clock' = ClockStarted
  /\ UNCHANGED << ui, stored, host >>

\* the interval of this.timer fires jitter milliseconds after its time; the
\* platform sets the next firing one period after the time the firing was
\* due (compensating timers) or one period after the time it ran
ClockTimerFire(jitter, compensated) ==
  /\ timer # 0
  /\ timer \in liveTimers
  /\ Commit(TimerCallback(Eng))
  /\ op' = "tick"
  /\ before' = session
  /\ run' = RunAfterTick(TimerCallback(Eng))
  /\ LET t == clock.due + jitter
         nextDue == IF compensated THEN clock.due + TickMs ELSE t + TickMs
     IN clock' = ClockFired(clock, t, nextDue, TimerGuard(Eng))
  /\ UNCHANGED << ui, stored, host >>

NextClock ==
  \/ \E breaths \in 1..MaxBreaths : ClockCreateSession("box-breathing", breaths)
  \/ ClockStart
  \/ ClockPause
  \/ ClockResume
  \/ \E jitter \in 0..MaxJitter, compensated \in BOOLEAN :
       ClockTimerFire(jitter, compensated)

SpecClock == Init /\ [][NextClock]_vars

\* ------------------------------- the engine driven through BreathworkTimer
\* Each handler runs to completion; the await of the play button's onClick is
\* taken to resolve before any other task runs.  The engine always has a
\* session here (the initialisation effect creates one), so handleStart's
\* branch for a missing session is not taken.

\* <input type="range" min="3" max="20">
SliderMin == 3

\* the history after a handler that neither opens nor closes the modal,
\* replaces the session or starts it
Ran(handler) == [host EXCEPT !.handler = handler]

\* the state after a handler: the engine e, the next render's state u, the
\* history h, the last engine call opName and the session found it on
CommitUI(e, u, h, opName, found) ==
  /\ Commit(SoundEffect(ui, u, e))
  /\ ui' = u
  /\ host' = h
  /\ op' = opName
  /\ before' = found
  /\ run' = NoRun
  /\ clock' = clock

InitUI ==
  /\ session = InitialEngine(NoStored).session
  /\ timer = 0
  /\ liveTimers = {}
  /\ currentCount = InitialEngine(NoStored).currentCount
  /\ countingDirection = InitialEngine(NoStored).countingDirection
  /\ soundCallback = 0
  /\ listeners = InitialEngine(NoStored).listeners
  /\ emitted = << >>
  /\ sounds = << >>
  /\ delivered = << >>
  /\ op = "createSession"
  /\ before = NoSession
  /\ run = NoRun
  /\ clock = NoClock
  /\ ui = InitialisedUI(NoStored)
  /\ stored = NoStored
  /\ host = [NoHost EXCEPT !.handler = "launch"]

\* the page is loaded again: a new engine, new React state, the same storage
Launch ==
  /\ Commit(InitialEngine(stored))
  /\ ui' = InitialisedUI(stored)
  /\ stored' = stored
  /\ host' = [NoHost EXCEPT !.handler = "launch"]
  /\ op' = "createSession"
  /\ before' = NoSession
  /\ run' = NoRun
  /\ clock' = clock

\* handleToggle(): enter full screen, or leave it with stop() and reset()
ToggleClick ==
  /\ ~ui.showSettings
  /\ IF ui.isFullScreen
     THEN CommitUI(HandleStop(Eng),
                   [HandleEngineEvents(ui, HandleStop(Eng).emitted)
                      EXCEPT !.isFullScreen = FALSE],
                   Ran("handleToggle"), "reset", StopEngine(Eng).session)
     ELSE CommitUI(Eng, [ui EXCEPT !.isFullScreen = TRUE],
                   Ran("handleToggle"), "none", session)
  /\ stored' = stored

\* the play/pause button showing play: ensureAudioRunning(), handleStart()
PlayClick(audioOk) ==
  /\ ui.isFullScreen
  /\ ~ui.showSettings
  /\ ~ui.isActive \/ ui.isPaused
  /\ LET found == FoundByStart(Eng, ui)
         live == IF ui.currentRound > ui.totalBreaths
                 THEN ResetOn(Eng).liveTimers ELSE liveTimers
     IN /\ (~ui.isPaused \/ found.isPaused) => Cardinality(live) < MaxTimers
        /\ ~ui.isPaused => found.currentRound <= found.breaths + MaxRestarts
        /\ CommitUI(HandleStart(Eng, ui),
                    [HandleEngineEvents(ui, HandleStart(Eng, ui).emitted)
                       EXCEPT !.isAudioInitialized = @ \/ audioOk],
                    [host EXCEPT !.handler = "handleStart", !.replaced = FALSE],
                    IF ui.isPaused THEN "resume" ELSE "start",
                    found)
  /\ stored' = stored

\* the play/pause button showing pause: ensureAudioRunning(), handlePause()
PauseClick(audioOk) ==
  /\ ui.isFullScreen
  /\ ~ui.showSettings
  /\ ui.isActive /\ ~ui.isPaused
  /\ CommitUI(PauseOn(Eng),
              [HandleEngineEvents(ui, PauseOn(Eng).emitted)
                 EXCEPT !.isAudioInitialized = @ \/ audioOk],
              Ran("handlePause"), "pause", session)
  /\ stored' = stored

\* the stop button: handleStop()
StopClick ==
  /\ ui.isFullScreen
  /\ ~ui.showSettings
  /\ CommitUI(HandleStop(Eng), HandleEngineEvents(ui, HandleStop(Eng).emitted),
              Ran("handleStop"), "reset", StopEngine(Eng).session)
  /\ stored' = stored

\* the settings button: handleSettingsOpen()
SettingsOpen ==
  /\ ui.isFullScreen
  /\ ~ui.showSettings
  /\ LET e == IF ui.isActive /\ ~ui.isPaused THEN PauseOn(Eng) ELSE Eng
     IN CommitUI(e,
                 [HandleEngineEvents(ui, e.emitted)
                    EXCEPT !.wasPausedBeforeSettings = ui.isPaused,
                           !.showSettings = TRUE],
                 [host EXCEPT !.handler = "handleSettingsOpen", !.opened = session],
                 IF ui.isActive /\ ~ui.isPaused THEN "pause" ELSE "none",
                 session)
  /\ stored' = stored

\* the modal is closed without saving: Cancel (handleCancel, then
\* handleSettingsClose) or a click on the scrim (handleSettingsClose)
SettingsClose(cancel) ==
  /\ ui.showSettings
  /\ (ui.isActive /\ ui.isPaused /\ ~ui.wasPausedBeforeSettings /\ session.isPaused)
       => Cardinality(liveTimers) < MaxTimers
  /\ LET e == HandleSettingsClose(Eng, ui)
     IN CommitUI(e,
                 [HandleEngineEvents(ui, e.emitted)
                    EXCEPT !.showSettings = FALSE,
                           !.tempBreaths = IF cancel THEN ui.breaths ELSE @],
                 [host EXCEPT !.handler = "handleSettingsClose", !.opened = NoSession],
                 IF ui.isActive /\ ui.isPaused /\ ~ui.wasPausedBeforeSettings
                 THEN "resume" ELSE "none",
                 session)
  /\ stored' = stored

\* the slider of the modal: setTempBreaths(parseInt(e.target.value))
SliderChange(n) ==
  /\ ui.showSettings
  /\ CommitUI(Eng, [ui EXCEPT !.tempBreaths = n], Ran("slider"), "none", session)
  /\ stored' = stored

\* a pattern of the modal's list is clicked: handlePatternSelect(pattern)
PatternSelect(pattern) ==
  /\ ui.showSettings
  /\ LET newBreaths == IF DefaultBreaths(pattern) # 0
                       THEN DefaultBreaths(pattern) ELSE ui.breaths
         e == CreateSessionOn(Eng, pattern, newBreaths)
     IN /\ CommitUI(e,
                    UpdateUIState([ui EXCEPT !.selectedPattern = pattern,
                                             !.breaths = newBreaths], e),
                    [host EXCEPT !.handler = "handlePatternSelect",
                                 !.opened = NoSession, !.replaced = TRUE],
                    "createSession", session)
        /\ stored' = SaveBreathworkSettings(
                        [selectedPatternId |-> pattern, breaths |-> newBreaths])

\* Save: handleBreathsChange(tempBreaths), then handleSettingsClose() of the
\* same render
SettingsSave ==
  /\ ui.showSettings
  /\ LET e1 == CreateSessionOn(Eng, ui.selectedPattern, ui.tempBreaths)
         u1 == UpdateUIState([ui EXCEPT !.breaths = ui.tempBreaths], e1)
         e2 == HandleSettingsClose(e1, ui)
     IN /\ CommitUI(e2,
                    [HandleEngineEvents(u1, e2.emitted) EXCEPT !.showSettings = FALSE],
                    [host EXCEPT !.handler = "handleSave",
                                 !.opened = NoSession, !.replaced = TRUE],
                    IF ui.isActive /\ ui.isPaused /\ ~ui.wasPausedBeforeSettings
                    THEN "resume" ELSE "createSession",
                    IF ui.isActive /\ ui.isPaused /\ ~ui.wasPausedBeforeSettings
                    THEN e1.session ELSE session)
        /\ stored' = SaveBreathworkSettings(
                        [selectedPatternId |-> ui.selectedPattern,
                         breaths |-> ui.tempBreaths])

\* the hook's 50 ms interval: updateUIState()
Poll ==
  /\ CommitUI(Eng, UpdateUIState(ui, Eng), Ran("updateUIState"), "none", session)
  /\ stored' = stored

\* the interval timer t fires; its events reach handleEngineEvent
UITimerFire(t) ==
  /\ t \in liveTimers
  /\ TimerGuard(Eng) \/ session.elapsedTime < MaxElapsed
  /\ CommitUI(TimerCallback(Eng),
              HandleEngineEvents(ui, TimerCallback(Eng).emitted),
              Ran("tick"), "tick", session)
  /\ stored' = stored

NextUI ==
  \/ Launch
  \/ ToggleClick
  \/ \E audioOk \in BOOLEAN : PlayClick(audioOk)
  \/ \E audioOk \in BOOLEAN : PauseClick(audioOk)
  \/ StopClick
  \/ SettingsOpen
  \/ \E cancel \in BOOLEAN : SettingsClose(cancel)
  \/ \E n \in SliderMin..MaxSlider : SliderChange(n)
  \/ \E pattern \in CatalogueIds : PatternSelect(pattern)
  \/ SettingsSave
  \/ Poll
  \/ \E t \in 1..MaxTimers : UITimerFire(t)

SpecUI == InitUI /\ [][NextUI]_vars


\* ------------------------------------------------------------------ claims
\* Completed: the session ran out of rounds and is neither active nor paused
Completed(s) == ~s.isActive /\ ~s.isPaused /\ s.currentRound > s.breaths

\* the engine's session, count and outputs are left alone by a step
SessionUntouched ==
  /\ session' = session
  /\ currentCount' = currentCount
  /\ countingDirection' = countingDirection
  /\ emitted' = << >>
  /\ sounds' = << >>

\* C1: after createSession(P, N), start() and exactly sum(P.phases.duration) * N
\* timer ticks the session is Completed, the roundComplete events emitted are
\* those of rounds 1..N in order and exactly one sessionComplete was emitted;
\* with fewer ticks the session is not Completed and no sessionComplete was
\* emitted.
C1_RunCompletes ==
  run.stage = "started" =>
    /\ run.ticks = session.totalTime =>
          /\ Completed(session)
          /\ run.rounds = [i \in 1..session.breaths |-> i]
          /\ run.completes = 1
    /\ run.ticks < session.totalTime =>
          /\ ~Completed(session)
          /\ run.completes = 0

C1_Witness ==
  /\ run.stage = "started"
  /\ session.pattern = "exhale-pause"
  /\ session.breaths = 2
  /\ run.ticks = 10
  /\ run.completes = 1

\* C3: once the session is Completed no timer firing changes a session field,
\* the count, the direction, or emits an event or a sound; for [inhale 3] with
\* breaths = 1 sessionComplete is emitted by the 3rd tick after start() and
\* ticks 4, 5, ... leave the state of the 3rd tick.
C3_Inert ==
  /\ [][ (op' = "tick" /\ session # NoSession /\ Completed(session))
           => SessionUntouched ]_vars
  /\ [] ( ( /\ run.stage = "started"
            /\ session.pattern = "single-inhale"
            /\ session.breaths = 1 )
          => /\ run.ticks < 3 => (run.completes = 0 /\ session.isActive)
             /\ run.ticks >= 3 =>
                  /\ run.completes = 1
                  /\ session = [ pattern |-> "single-inhale", breaths |-> 1,
                                 currentRound |-> 2, currentPhaseIndex |-> 0,
                                 timeRemaining |-> 0, isActive |-> FALSE,
                                 isPaused |-> FALSE, totalTime |-> 3,
                                 elapsedTime |-> 3 ]
                  /\ currentCount = 1
                  /\ countingDirection = "up" )

C3_Witness ==
  /\ op = "tick"
  /\ run.stage = "started"
  /\ session.pattern = "single-inhale"
  /\ session.breaths = 1
  /\ run.ticks = 4
  /\ Completed(session)

\* C4 as stated: Box Breathing with breaths = 2: 8 ticks after start() the
\* session has currentRound = 2, currentPhaseIndex = 0 and timeRemaining = 4;
\* 16 ticks after start() it is Completed.
C4_AsStated ==
  ( /\ run.stage = "started"
    /\ session.pattern = "box-breathing"
    /\ session.breaths = 2 )
  => /\ run.ticks = 8 => /\ session.currentRound = 2
                         /\ session.currentPhaseIndex = 0
                         /\ session.timeRemaining = 4
     /\ run.ticks = 16 => Completed(session)

\* C4: Box Breathing with breaths = 2 (one round lasts 4 + 4 + 4 + 4 = 16
\* ticks): 16 ticks after start() the session has currentRound = 2,
\* currentPhaseIndex = 0 and timeRemaining = 4; 32 ticks after start() it is
\* Completed.
C4_BoxBreathing ==
  ( /\ run.stage = "started"
    /\ session.pattern = "box-breathing"
    /\ session.breaths = 2 )
  => /\ run.ticks = 16 => /\ session.currentRound = 2
                          /\ session.currentPhaseIndex = 0
                          /\ session.timeRemaining = 4
                          /\ session.isActive
     /\ run.ticks = 32 => Completed(session)

C4_Witness ==
  /\ run.stage = "started"
  /\ session.pattern = "box-breathing"
  /\ session.breaths = 2
  /\ run.ticks = 32
  /\ session.elapsedTime = 32

\* Running: the session is active and not paused
Running(s) == s.isActive /\ ~s.isPaused

\* a step leaves the whole engine alone and emits nothing
EngineUntouched ==
  /\ UNCHANGED << session, timer, liveTimers, currentCount, countingDirection,
                  soundCallback >>
  /\ emitted' = << >>
  /\ sounds' = << >>

\* C2: whatever sequence of createSession, start, pause, resume, stop, reset
\* calls and timer firings ran, at most one interval timer is live (created
\* and not yet cleared), so that one elapsed second ticks the session once.
C2_AtMostOneLiveTimer == Cardinality(liveTimers) <= 1

\* C5: reset() on an engine with a session leaves currentRound = 1,
\* currentPhaseIndex = 0, timeRemaining = phases[0].duration, elapsedTime = 0,
\* isActive = isPaused = false, count = 1, direction = up and keeps pattern,
\* breaths and totalTime; from then until start() (or createSession) no timer
\* firing or other call changes the session or the count.
C5_Reset ==
  /\ [] ( run.stage = "reset" =>
            /\ session = [ before EXCEPT
                             !.currentRound = 1,
                             !.currentPhaseIndex = 0,
                             !.timeRemaining = Phases(before.pattern)[1].duration,
                             !.elapsedTime = 0,
                             !.isActive = FALSE,
                             !.isPaused = FALSE ]
            /\ currentCount = 1
            /\ countingDirection = "up" )
  /\ [][ (run.stage = "reset" /\ op' = "tick") => SessionUntouched ]_vars

C5_Witness ==
  /\ run.stage = "reset"
  /\ op = "reset"
  /\ before.elapsedTime = 5
  /\ before.isPaused
  /\ before.pattern = "exhale-pause"
  /\ before.currentRound = 2
  /\ liveTimers # {}

\* C6: while the session is Paused a timer firing changes neither the session
\* nor the count; resume() changes only isPaused; and the first tick after
\* resume() counts one second of the phase the session was paused in.
C6_PausedNoTimePasses ==
  [][ /\ (session # NoSession /\ session.isPaused /\ op' = "tick")
          => SessionUntouched
      /\ (session # NoSession /\ session.isPaused /\ op' = "resume")
          => /\ session' = [session EXCEPT !.isPaused = FALSE]
             /\ currentCount' = currentCount
      /\ ( /\ op = "resume" /\ before # NoSession /\ before.isPaused
           /\ op' = "tick" )
          => /\ session'.elapsedTime = session.elapsedTime + 1
             /\ session.timeRemaining > 1 =>
                  /\ session'.timeRemaining = session.timeRemaining - 1
                  /\ session'.currentPhaseIndex = session.currentPhaseIndex
                  /\ session'.currentRound = session.currentRound
    ]_vars

C6_Witness ==
  /\ op = "resume"
  /\ before # NoSession
  /\ before.isPaused
  /\ session.timeRemaining = 2
  /\ session.pattern = "box-breathing"
  /\ session.currentPhaseIndex = 1
  /\ Cardinality(liveTimers) = 2

\* C7: pause() on an engine whose session is missing or not active, and
\* resume() on an engine whose session is missing or not paused, change no
\* session field, create or cancel no timer and emit no event.
C7_GuardedNoOps ==
  [][ ( \/ op' = "pause" /\ (session = NoSession \/ ~session.isActive)
        \/ op' = "resume" /\ (session = NoSession \/ ~session.isPaused) )
      => EngineUntouched ]_vars

C7_Witness ==
  /\ op = "pause"
  /\ before # NoSession
  /\ ~before.isActive
  /\ timer # 0
  /\ soundCallback # 0

\* C8: a pause() on a Paused session and a resume() on a Running session
\* change no engine state and emit no event.
C8_Idempotent ==
  [][ ( \/ op' = "pause" /\ session # NoSession /\ session.isActive /\ session.isPaused
        \/ op' = "resume" /\ session # NoSession /\ Running(session) )
      => EngineUntouched ]_vars

\* C9: a control method called when there is no session, or when the session
\* is not in a state the method applies to (pause when not active, resume
\* when not paused, start when Running, stop when neither Running nor Paused),
\* changes no engine state and emits no event.
C9_InvalidStateNoOps ==
  [][ ( \/ /\ op' \in {"start", "pause", "resume", "stop", "reset"}
           /\ session = NoSession
        \/ /\ session # NoSession
           /\ \/ op' = "pause" /\ ~session.isActive
              \/ op' = "resume" /\ ~session.isPaused
              \/ op' = "start" /\ Running(session)
              \/ op' = "stop" /\ ~session.isActive )
      => EngineUntouched ]_vars

\* the phase the session is in
PhaseOf(s) == Phases(s.pattern)[s.currentPhaseIndex + 1]

\* C10: in an inhale, hold or exhale phase of duration D of a Running session
\* the direction is up and the count is never above D; with D - k seconds of
\* the phase left (0 <= k < D) the count is k + 1; a tick that enters such a
\* phase loads its full duration (count 1) and a tick inside it takes one
\* second off the phase and adds one to the count.
C10_CountsUp ==
  /\ [] ( ( /\ session # NoSession
            /\ Running(session)
            /\ PhaseOf(session).type \in {"inhale", "hold", "exhale"} )
          => /\ countingDirection = "up"
             /\ currentCount <= PhaseOf(session).duration
             /\ session.timeRemaining \in 1..PhaseOf(session).duration
                  => currentCount = PhaseOf(session).duration - session.timeRemaining + 1 )
  /\ [][ ( /\ op' = "tick"
           /\ session # NoSession
           /\ Running(session)
           /\ Running(session')
           /\ PhaseOf(session').type \in {"inhale", "hold", "exhale"} )
         => IF /\ session'.currentPhaseIndex = session.currentPhaseIndex
               /\ session'.currentRound = session.currentRound
            THEN /\ session'.timeRemaining = session.timeRemaining - 1
                 /\ currentCount' = currentCount + 1
            ELSE /\ session'.timeRemaining = PhaseOf(session').duration
                 /\ currentCount' = 1 ]_vars

C10_Witness ==
  /\ op = "tick"
  /\ session # NoSession
  /\ Running(session)
  /\ session.pattern = "box-breathing"
  /\ session.currentPhaseIndex = 2
  /\ session.timeRemaining = 1
  /\ currentCount = 4
  /\ before.timeRemaining = 2

\* C11: in a pause phase of duration D of a Running session the direction is
\* down and the count is never below 1; with D - k seconds of the phase left
\* (0 <= k < D) the count is D - k; a tick that enters a pause phase loads its
\* full duration (count D) and a tick inside it takes one second off the phase
\* and one off the count.
C11_CountsDown ==
  /\ [] ( ( /\ session # NoSession
            /\ Running(session)
            /\ PhaseOf(session).type = "pause" )
          => /\ countingDirection = "down"
             /\ currentCount >= 1
             /\ session.timeRemaining \in 1..PhaseOf(session).duration
                  => currentCount = session.timeRemaining )
  /\ [][ ( /\ op' = "tick"
           /\ session # NoSession
           /\ Running(session)
           /\ Running(session')
           /\ PhaseOf(session').type = "pause" )
         => IF /\ session'.currentPhaseIndex = session.currentPhaseIndex
               /\ session'.currentRound = session.currentRound
            THEN /\ session'.timeRemaining = session.timeRemaining - 1
                 /\ currentCount' = currentCount - 1
            ELSE /\ session'.timeRemaining = PhaseOf(session').duration
                 /\ currentCount' = PhaseOf(session').duration ]_vars

C11_Witness ==
  /\ op = "tick"
  /\ session # NoSession
  /\ Running(session)
  /\ session.pattern = "exhale-pause"
  /\ session.currentPhaseIndex = 1
  /\ session.timeRemaining = 1
  /\ currentCount = 1
  /\ countingDirection = "down"
  /\ before.timeRemaining = 2

\* C12: every tick of a Running session with a sound callback installed that
\* does not complete the session invokes the callback exactly once, with the
\* phase that is current after the tick and its count.
C12_SoundPerTick ==
  [][ ( /\ op' = "tick"
        /\ session # NoSession
        /\ Running(session)
        /\ soundCallback # 0
        /\ Running(session') )
      => /\ Len(sounds') = 1
         /\ sounds'[1].phase = PhaseOf(session')
         /\ sounds'[1].count = currentCount' ]_vars

\* C13: every invocation of the sound callback happens with a session that
\* is active and not paused.
C13_SoundOnlyWhenRunning ==
  \A i \in 1..Len(sounds) : sounds[i].isActive /\ ~sounds[i].isPaused

C13_Witness ==
  /\ op = "tick"
  /\ Len(sounds) = 1
  /\ sounds[1].count = 3
  /\ Cardinality(liveTimers) = 2
  /\ session.pattern = "box-breathing"

\* C14: 1 <= currentRound <= breaths + 1 in every state, currentRound exceeds
\* breaths exactly when the session is Completed, and the session is never
\* active with currentRound > breaths.
C14_RoundRange ==
  session # NoSession =>
    /\ 1 <= session.currentRound
    /\ session.currentRound <= session.breaths + 1
    /\ (session.currentRound > session.breaths) <=> Completed(session)
    /\ ~(session.isActive /\ session.currentRound > session.breaths)

\* C15: stop() on a Running or Paused session clears isActive and isPaused,
\* clears this.timer and the sound callback and leaves every other session
\* field alone; from then until start(), reset() or createSession the session
\* stays inactive and a timer firing changes nothing and invokes no sound
\* callback, also when a callback was installed again.
C15_Stop ==
  /\ [][ (op' = "stop" /\ session # NoSession /\ session.isActive)
         => /\ session' = [session EXCEPT !.isActive = FALSE, !.isPaused = FALSE]
            /\ timer' = 0
            /\ timer # 0 => timer \notin liveTimers'
            /\ soundCallback' = 0
            /\ currentCount' = currentCount
            /\ countingDirection' = countingDirection ]_vars
  /\ [] ( run.stage = "stopped" => (~session.isActive /\ ~session.isPaused) )
  /\ [][ (run.stage = "stopped" /\ op' = "tick") => SessionUntouched ]_vars

C15_Witness ==
  /\ run.stage = "stopped"
  /\ op = "tick"
  /\ soundCallback # 0
  /\ session.elapsedTime = 6
  /\ session.pattern = "box-breathing"

\* the seconds of one round of each pattern: 4+4+4+4, 1+1, 3, 2+3
RoundSeconds(id) ==
  CASE id = "box-breathing" -> 16
    [] id = "kapalabhati"   -> 2
    [] id = "single-inhale" -> 3
    [] id = "exhale-pause"  -> 5

\* the session is Idle and as createSession initialises it
FreshlyCreated(s) ==
  /\ s.currentRound = 1
  /\ s.currentPhaseIndex = 0
  /\ s.timeRemaining = Phases(s.pattern)[1].duration
  /\ s.elapsedTime = 0
  /\ ~s.isActive
  /\ ~s.isPaused
  /\ s.totalTime = RoundSeconds(s.pattern) * s.breaths

\* C16: createSession in any state yields an Idle session with currentRound = 1,
\* currentPhaseIndex = 0, timeRemaining = phases[0].duration, elapsedTime = 0,
\* totalTime = sum(phase.duration) * breaths, count = 1 and direction up; a
\* timer firing that finds the session as created (no start() since) changes
\* no field of it and not the count.
C16_CreateSession ==
  /\ [] ( op = "createSession" =>
            /\ FreshlyCreated(session)
            /\ currentCount = 1
            /\ countingDirection = "up" )
  /\ [][ ( /\ session # NoSession
           /\ FreshlyCreated(session)
           /\ op' = "tick" )
         => SessionUntouched ]_vars

C16_Witness ==
  /\ run.stage = "created"
  /\ op = "tick"
  /\ liveTimers # {}
  /\ session.pattern = "exhale-pause"
  /\ session.breaths = 2
  /\ session.totalTime = 10

\* C17: elapsedTime never decreases under a tick, start(), pause(), resume(),
\* stop() or setSoundCallback; a tick of a Running session adds exactly 1 and
\* nothing else changes it; createSession and reset() set it to 0.
C17_ElapsedMonotone ==
  [][ /\ ( /\ session # NoSession
           /\ op' \in {"tick", "start", "pause", "resume", "stop", "setSoundCallback"} )
         => /\ session'.elapsedTime >= session.elapsedTime
            /\ session'.elapsedTime =
                 IF op' = "tick" /\ Running(session)
                 THEN session.elapsedTime + 1
                 ELSE session.elapsedTime
      /\ op' = "createSession" => session'.elapsedTime = 0
      /\ (op' = "reset" /\ session # NoSession) => session'.elapsedTime = 0
    ]_vars

C17_Witness ==
  /\ op = "start"
  /\ before # NoSession
  /\ ~before.isActive
  /\ before.elapsedTime = 7
  /\ session.elapsedTime = 7

\* C18: 0 <= elapsedTime <= totalTime = sum(phase.duration) * breaths in every
\* state, so getTotalTimeRemaining() is not negative and getProgress() is
\* elapsedTime * 100 / totalTime, within 0..100.
C18_ElapsedWithinTotal ==
  session # NoSession =>
    /\ session.totalTime = RoundSeconds(session.pattern) * session.breaths
    /\ 0 <= session.elapsedTime
    /\ session.elapsedTime <= session.totalTime
    /\ GetTotalTimeRemaining(Eng) >= 0
    /\ GetProgressTimesTotal(Eng) = session.elapsedTime * 100
    /\ GetProgressTimesTotal(Eng) \in 0..(100 * session.totalTime)

RECURSIVE ExpectedDeliveries(_, _)
\* every event of evs, in order, handed to every entry of ls, in order
ExpectedDeliveries(evs, ls) ==
  IF evs = << >> THEN << >>
  ELSE [i \in 1..Len(ls) |-> [listener |-> ls[i], event |-> Head(evs)]]
       \o ExpectedDeliveries(Tail(evs), ls)

PhaseEnds(s) == Running(s) /\ s.timeRemaining <= 1

\* the current phase is the last of the pattern
InLastPhase(s) == s.currentPhaseIndex = Len(Phases(s.pattern)) - 1

\* C20: the tick that ends the last phase of round r makes currentRound r + 1
\* and currentPhaseIndex 0; for r < breaths it emits roundComplete(r) and then
\* one phaseChange for phase 0 of round r + 1 and reloads timeRemaining with
\* phases[0].duration; for r = breaths it emits roundComplete(r) first and
\* sessionComplete last, no phaseChange, and no later tick emits an event.
\* The tick that ends another phase emits one phaseChange for the next phase
\* of the same round and nothing else.
C20_RoundEvents ==
  [][ /\ ( /\ op' = "tick" /\ session # NoSession
           /\ PhaseEnds(session) /\ InLastPhase(session) )
         => /\ session'.currentRound = session.currentRound + 1
            /\ session'.currentPhaseIndex = 0
            /\ session.currentRound < session.breaths =>
                 /\ emitted' =
                      << Event("roundComplete", << session.currentRound, session.breaths >>),
                         Event("phaseChange", << 0, session.currentRound + 1 >>) >>
                 /\ session'.timeRemaining = Phases(session.pattern)[1].duration
            /\ session.currentRound = session.breaths =>
                 /\ emitted'[1] =
                      Event("roundComplete", << session.currentRound, session.breaths >>)
                 /\ emitted'[Len(emitted')] = Event("sessionComplete", << >>)
                 /\ CountType(emitted', "phaseChange") = 0
                 /\ CountType(emitted', "roundComplete") = 1
                 /\ CountType(emitted', "sessionComplete") = 1
                 /\ Completed(session')
      /\ ( /\ op' = "tick" /\ session # NoSession
           /\ PhaseEnds(session) /\ ~InLastPhase(session) )
         => /\ emitted' = << Event("phaseChange",
                               << session.currentPhaseIndex + 1, session.currentRound >>) >>
            /\ session'.currentRound = session.currentRound
            /\ session'.currentPhaseIndex = session.currentPhaseIndex + 1
      /\ ( /\ op' = "tick" /\ session # NoSession /\ Completed(session) )
         => emitted' = << >>
    ]_vars

C20_Witness ==
  /\ op = "tick"
  /\ before # NoSession
  /\ before.currentRound = 1
  /\ before.breaths = 2
  /\ before.pattern = "exhale-pause"
  /\ before.currentPhaseIndex = 1
  /\ before.timeRemaining = 1
  /\ session.currentRound = 2
  /\ Len(emitted) = 2


\* C21: a tick of a Running session with a sound callback installed invokes
\* the callback if and only if the displayed count after the tick differs from
\* the displayed count before it, or the tick is the first tick of the session
\* (no second has elapsed before it).
C21_SoundIffCountChanged ==
  [][ ( /\ op' = "tick"
        /\ session # NoSession
        /\ Running(session)
        /\ soundCallback # 0 )
      => ( (sounds' # << >>)
           <=> (currentCount' # currentCount \/ session.elapsedTime = 0) ) ]_vars


\* C22: the k-th firing of the interval since startPreciseTimer runs within
\* one timer jitter of k periods after the start (times are measured from the
\* start), however many firings there have been.
C22_DriftBounded ==
  clock.fired >= 1 => clock.firedAt - clock.fired * TickMs <= MaxJitter


\* the durations of the first n phases of a pattern, added up
RECURSIVE PrefixDurations(_, _)
PrefixDurations(ph, n) ==
  IF n = 0 THEN 0 ELSE ph[n].duration + PrefixDurations(ph, n - 1)

\* the seconds a session's cursor (round, phase, timeRemaining) stands for
CursorElapsed(s) ==
  (s.currentRound - 1) * SumDurations(Phases(s.pattern))
  + PrefixDurations(Phases(s.pattern), s.currentPhaseIndex)
  + (PhaseOf(s).duration - s.timeRemaining)

\* C23: while currentRound <= breaths, elapsedTime is the position the cursor
\* stands for; in a Completed state (currentRound > breaths, reached by
\* ticking only) elapsedTime = totalTime.
C23_ElapsedMatchesCursor ==
  session # NoSession =>
    /\ session.currentRound <= session.breaths
         => session.elapsedTime = CursorElapsed(session)
    /\ Completed(session) => session.elapsedTime = session.totalTime


\* C24: in every state between operations the phase index is inside the
\* pattern; a session that is not Completed has 1 <= timeRemaining <= the
\* duration of its phase, and a Completed one has timeRemaining = 0.
C24_CursorInRange ==
  session # NoSession =>
    /\ 0 <= session.currentPhaseIndex
    /\ session.currentPhaseIndex < Len(Phases(session.pattern))
    /\ ~Completed(session)
         => /\ 1 <= session.timeRemaining
            /\ session.timeRemaining <= PhaseOf(session).duration
    /\ Completed(session) => session.timeRemaining = 0


\* C25: start() on an existing session emits one 'resume' and nothing else,
\* pause() on an active session one 'pause', resume() on a paused session one
\* 'resume', stop() one 'stop', reset() one 'stop'; the tick that completes a
\* session emits one sessionComplete, as its last event, with no 'stop'
\* after it.
C25_ControlEvents ==
  [][ /\ (op' = "start" /\ session # NoSession)
         => emitted' = << Event("resume", << >>) >>
      /\ (op' = "pause" /\ session # NoSession /\ session.isActive)
         => emitted' = << Event("pause", << >>) >>
      /\ (op' = "resume" /\ session # NoSession /\ session.isPaused)
         => emitted' = << Event("resume", << >>) >>
      /\ op' = "stop" => emitted' = << Event("stop", << >>) >>
      /\ op' = "reset" => emitted' = << Event("stop", << >>) >>
      /\ ( /\ op' = "tick"
           /\ \/ CountType(emitted', "sessionComplete") > 0
              \/ (session # NoSession /\ Running(session) /\ Completed(session')) )
         => /\ CountType(emitted', "sessionComplete") = 1
            /\ emitted'[Len(emitted')] = Event("sessionComplete", << >>) ]_vars

C25_Witness ==
  /\ op = "tick"
  /\ Len(emitted) = 3
  /\ emitted[1].type = "roundComplete"
  /\ emitted[2] = Event("stop", << >>)
  /\ emitted[3] = Event("sessionComplete", << >>)
  /\ Completed(session)


\* C26: driven through the controls of BreathworkTimer, under every
\* interleaving of clicks, timer firings and polls, the engine never has two
\* live interval timers, and handleStart never calls start() on a Running
\* session.
C26_NoDoubleStart ==
  [][ /\ Cardinality(liveTimers') <= 1
      /\ (host'.handler = "handleStart" /\ op' = "start") => ~Running(before') ]_vars


\* C27: handleStart never calls start() on a session with
\* currentRound > breaths (a completed session is reset before it is
\* started), under every interleaving of the sessionComplete handler, the
\* poll and the click.
C27_RestartFromBeginning ==
  [][ (host'.handler = "handleStart" /\ op' = "start")
      => before'.currentRound <= before'.breaths ]_vars


\* the run state of a session: Idle, Running or Paused
RunState(s) ==
  IF ~s.isActive THEN "Idle" ELSE IF s.isPaused THEN "Paused" ELSE "Running"

\* C28: when the settings modal is closed with no setting changed since
\* handleSettingsOpen, the engine's run state, currentRound, currentPhaseIndex
\* and timeRemaining are those handleSettingsOpen found (a Running session was
\* paused in between and is resumed, a Paused or Idle one is left alone).
C28_OpenCloseRestores ==
  [][ (host'.handler = "handleSettingsClose" /\ host.opened # NoSession)
      => /\ RunState(session') = RunState(host.opened)
         /\ session'.currentRound = host.opened.currentRound
         /\ session'.currentPhaseIndex = host.opened.currentPhaseIndex
         /\ session'.timeRemaining = host.opened.timeRemaining
         /\ (RunState(host.opened) = "Running" /\ host.handler = "handleSettingsOpen")
              => RunState(session) = "Paused" ]_vars


\* a session as createSession leaves it: Idle, in round 1, nothing elapsed
FreshIdle(s) ==
  /\ ~s.isActive
  /\ ~s.isPaused
  /\ s.currentRound = 1
  /\ s.elapsedTime = 0

\* C29: after handleBreathsChange (Save) or handlePatternSelect in the
\* settings modal, and after the handleSettingsClose that follows, the engine
\* has a fresh Idle session, whatever the session was before and whatever the
\* React copies handleSettingsClose reads; until handleStart runs the session
\* stays fresh and Idle and no timer firing changes it.
C29_ReplacedSessionIdle ==
  /\ [](host.replaced => FreshIdle(session))
  /\ [][ (host.replaced /\ op' = "tick") => session' = session ]_vars

\* Save on a session the modal had paused: handleSettingsClose called
\* resume() from the copies of the render before the change
C29_Witness ==
  /\ host.handler = "handleSave"
  /\ host.replaced
  /\ op = "resume"
  /\ ~ui.wasPausedBeforeSettings
  /\ FreshIdle(session)
  /\ session.breaths = SliderMin


\* C30: the settings BreathworkTimer saved come back from storage: when the
\* page is loaded again after a save, the selected pattern and the breath count
\* of the component, and the pattern and round count of the session it
\* creates, are those the user last configured.
C30_SettingsRoundTrip ==
  [][ (host'.handler = "launch" /\ stored # NoStored)
      => /\ ui'.selectedPattern = ui.selectedPattern
         /\ ui'.breaths = ui.breaths
         /\ session'.pattern = session.pattern
         /\ session'.breaths = session.breaths ]_vars

====
